---------------------------- MODULE Spec2Model ----------------------------
(***************************************************************************)
(* Output reconciliation and conversation state engine of the EasyScale    *)
(* decision engine: the SDR validators (closer / gatekeeper), the          *)
(* re-engagement review loop, and the router graph with its priority       *)
(* dispatcher.                                                             *)
(***************************************************************************)
EXTENDS Integers, Sequences, FiniteSets, TLC

VARIABLES
    sdrFlow,        \* which SDR endpoint handled the request in flight: "idle" | "closer" | "gatekeeper"
    sdrReq,         \* the request handed to process_message (latest_message, available_slots, attempt_count)
    sdrRaw,         \* the reasoner's raw prediction (self.process(...)), or its failure
    sdrRes,         \* outcome of Agent.forward (a dict, or an exception)
    sdrOut,         \* dict returned by process_message (the graph node)
    sdrCalls,       \* concurrent SDR requests: per call its position, request, prediction and result
    sdrLocals,      \* concurrent SDR requests: the local variables of each call of forward
    sdrConv,        \* one SDR conversation over its turns: flow, turns made, agent turns sent, last result
    rePc,           \* re-engagement graph: node about to run
    reState,        \* re-engagement graph: ReengageState channels
    reLog,          \* re-engagement graph: nodes executed so far in this run
    rtPc,           \* router graph: node about to run
    rtState,        \* router graph: AgentState channels
    rtLog,          \* router graph: nodes executed so far in this run
    rtRaw,          \* router graph: the prediction the reasoner returned to router_node
    rtResp          \* router endpoint: the RouterResponse of route_message

vars == <<sdrFlow, sdrReq, sdrRaw, sdrRes, sdrOut, sdrCalls, sdrLocals, sdrConv, rePc, reState, reLog, rtPc, rtState, rtLog, rtRaw, rtResp>>
sdrVars == <<sdrFlow, sdrReq, sdrRaw, sdrRes, sdrOut, sdrCalls, sdrLocals, sdrConv>>
reVars == <<rePc, reState, reLog>>
rtVars == <<rtPc, rtState, rtLog, rtRaw, rtResp>>

(***************************************************************************)
(* Bounds of the model.                                                    *)
(***************************************************************************)
MaxAttempt == 6
MaxReSteps == 10
MaxQueue == 3
MaxCalls == 2
MaxTurns == 7

(***************************************************************************)
(* Python values.  A value is None, a str, or some other object (int,      *)
(* bool, list ...) of which only str(val) is known.  A str is its          *)
(* lower-cased, stripped text `word` plus two flags: `cased` (it has       *)
(* upper-case letters) and `padded` (it has surrounding whitespace).       *)
(***************************************************************************)
PyNone == [t |-> "none", word |-> "", cased |-> FALSE, padded |-> FALSE]
PyStr(w, c, p) == [t |-> "str", word |-> w, cased |-> c, padded |-> p]
PyOther(w, c) == [t |-> "other", word |-> w, cased |-> c, padded |-> FALSE]
Lit(w) == PyStr(w, FALSE, FALSE)

\* str.lower()
Lower(s) == [s EXCEPT !.cased = FALSE]
\* str.strip()
Strip(s) == [s EXCEPT !.padded = FALSE]
\* truthiness of an Optional[str]: None and "" are falsy
Truthy(v) == v.t # "none" /\ ~(v.t = "str" /\ v.word = "" /\ ~v.padded)

\* str(val)
py_str(val) ==
    IF val.t = "none" THEN PyStr("none", TRUE, FALSE)
    ELSE PyStr(val.word, val.cased, val.padded)

\* closer/agent.py safe_str
safe_str(val, default) ==
    IF val.t = "none" THEN default
    ELSE IF val.t = "str" THEN val
    ELSE PyStr(val.word, val.cased, FALSE)


(***************************************************************************)
(* Closer flow: app/agents/sdr/closer/agent.py                             *)
(***************************************************************************)
\* The texts a date-time field is drawn from.  A text in one of the four
\* strptime formats is named by the format it is written in.
formats_to_try == <<"%Y-%m-%dT%H:%M:%S", "%Y-%m-%dT%H:%M", "%Y-%m-%d %H:%M:%S", "%Y-%m-%d %H:%M">>
DtEmbedded == "Fechado: %Y-%m-%d %H:%M, ate la"
DtBadFields == "2024-13-45T25:61"
DtGarbage == "amanha as 15h"
IsoText == Lit("%Y-%m-%dT%H:%M:%S")

\* datetime.strptime(cleaned, fmt) succeeds
strptime_ok(cleaned, fmt) == ~cleaned.padded /\ cleaned.word = fmt
\* re.search(r"(\d{4}-\d{2}-\d{2})[T\s](\d{2}:\d{2})", cleaned) finds a match
pattern_match(cleaned) ==
    cleaned.word \in {formats_to_try[i] : i \in 1..Len(formats_to_try)} \cup {DtEmbedded, DtBadFields}
\* strptime of the two matched groups succeeds (the calendar fields are in range)
groups_ok(cleaned) == cleaned.word # DtBadFields

\* CloserAgent._parse_datetime
parse_datetime(dt_str) ==
    IF ~Truthy(dt_str) \/ Strip(Lower(dt_str)) = Lit("null") THEN PyNone
    ELSE LET cleaned == Strip(dt_str) IN
         IF \E i \in 1..Len(formats_to_try) : strptime_ok(cleaned, formats_to_try[i]) THEN IsoText
         ELSE IF pattern_match(cleaned) /\ groups_ok(cleaned) THEN IsoText
         ELSE PyNone

valid_stages_closer == {"greeting", "pitching", "proposing_time", "confirming", "scheduled", "lost"}
QuestionText == "10h nao da, pode ser 14h?"
PlainText == "Combinado!"
\* rule 1b never seeing a question
has_question_mark_never(msg) == FALSE

\* "?" in latest_message
has_question_mark(msg) == msg.word = QuestionText

\* the ceiling applied one attempt too late
closer_attempt_limit_late(attempt_count, stage) ==
    attempt_count > 5 /\ stage \in {"greeting", "pitching"}

\* the ceiling applied to the greeting stage only
closer_attempt_limit_greeting_only(attempt_count, stage) ==
    attempt_count >= 5 /\ stage = "greeting"

\* Rule 4 of CloserAgent.forward: the attempt ceiling
closer_attempt_limit(attempt_count, stage) ==
    attempt_count >= 5 /\ stage \in {"greeting", "pitching"}

\* rule 1 letting a time proposal keep its date-time as well
closer_keeps_datetime_proposing(stage) == stage \in {"scheduled", "confirming", "proposing_time"}

\* Rule 1 of CloserAgent.forward: stages that may keep a date-time
closer_keeps_datetime(stage) == stage \in {"scheduled", "confirming"}

\* Rule 5 of CloserAgent.forward: terminal stages always stop
closer_terminal(stage) == stage \in {"scheduled", "lost"}

\* the stage validation defaulting to the opening stage
closer_validate_stage_greeting(raw_stage) ==
    LET s == Strip(Lower(safe_str(raw_stage, Lit("greeting")))) IN
    IF s.word \in valid_stages_closer THEN s.word ELSE "greeting"

\* Stage validation of CloserAgent.forward
closer_validate_stage(raw_stage) ==
    LET s == Strip(Lower(safe_str(raw_stage, Lit("pitching")))) IN
    IF s.word \in valid_stages_closer THEN s.word ELSE "pitching"

\* the texts of the messages the code itself words
CloserDefaultResponse == PyStr("podemos continuar?", TRUE, FALSE)
CloserFallbackResponse == PyStr("desculpe, tive um problema tecnico. podemos continuar?", TRUE, FALSE)
\* f"Erro no processamento: {str(e)}"
ErrorReasoning == PyStr("erro no processamento: <str(e)>", TRUE, FALSE)

\* CloserAgent.forward, after self.process(...) returned `raw`
closer_forward(req, raw) ==
    LET dt0 == parse_datetime(safe_str(raw.meeting_datetime, Lit("null")))
        sc0 == Strip(Lower(safe_str(raw.should_continue, Lit("true")))) = Lit("true")
        st0 == closer_validate_stage(raw.conversation_stage)
        \* 1. date-time only with scheduled / confirming
        dt1 == IF Truthy(dt0) /\ ~closer_keeps_datetime(st0) THEN PyNone ELSE dt0
        \* 1b. scheduled but the latest message is a question
        q   == st0 = "scheduled" /\ Truthy(req.latest_message) /\ has_question_mark(req.latest_message)
        st1 == IF q THEN "confirming" ELSE st0
        dt2 == IF q THEN PyNone ELSE dt1
        \* 2. scheduled without date-time
        st2 == IF st1 = "scheduled" /\ ~Truthy(dt2) THEN "confirming" ELSE st1
        \* 3. no slots to propose
        st3 == IF st2 = "proposing_time" /\ req.available_slots = 0 THEN "pitching" ELSE st2
        \* 4. attempt ceiling
        lim == closer_attempt_limit(req.attempt_count, st3)
        st4 == IF lim THEN "lost" ELSE st3
        sc1 == IF lim THEN FALSE ELSE sc0
        \* 5. terminal stages stop
        sc2 == IF closer_terminal(st4) THEN FALSE ELSE sc1
    IN [raised |-> FALSE,
        reasoning |-> safe_str(raw.reasoning, Lit("")),
        response_message |-> Strip(safe_str(raw.response_message, CloserDefaultResponse)),
        conversation_stage |-> st4,
        meeting_datetime |-> dt2,
        meeting_confirmed |-> dt2.t # "none",
        should_send_message |-> sc2]

\* the dict process_message returns when forward raised (closer/graph.py)
closer_fallback ==
    [raised |-> FALSE,
     reasoning |-> ErrorReasoning,
     response_message |-> CloserFallbackResponse,
     conversation_stage |-> "pitching",
     meeting_datetime |-> PyNone,
     meeting_confirmed |-> FALSE,
     should_send_message |-> TRUE]


(***************************************************************************)
(* Gatekeeper flow: app/agents/sdr/gatekeeper/agent.py                     *)
(***************************************************************************)
\* The texts a phone field is drawn from, and the digits re.sub(r"\D", "", phone) leaves
PhoneMobile == "11 99988-7766"
PhoneLandline == "fixo (11) 3333-4444"
PhoneNine == "99988-7766"
PhoneEight == "3333-4444"
PhoneFour == "9999"
PhoneNoDigits == "nao informado"
digits_of(phone) ==
    CASE phone.word = PhoneMobile -> "11999887766"
      [] phone.word = PhoneLandline -> "1133334444"
      [] phone.word = PhoneNine -> "999887766"
      [] phone.word = PhoneEight -> "33334444"
      [] phone.word = PhoneFour -> "9999"
      [] OTHER -> ""
digit_len(d) ==
    CASE d = "11999887766" -> 11
      [] d = "1133334444" -> 10
      [] d = "999887766" -> 9
      [] d = "33334444" -> 8
      [] d = "9999" -> 4
      [] OTHER -> 0

\* minimum number of digits GatekeeperAgent._clean_phone accepts
MinPhoneDigits == 10

\* an attribute access such as val.lower() / val.strip() raises AttributeError
no_str_method(val) == val.t # "str"

\* GatekeeperAgent._clean_phone; [raised |-> TRUE] when phone.lower() raises
clean_phone(phone) ==
    IF phone.t = "none" \/ (phone.t = "str" /\ ~Truthy(phone)) THEN [raised |-> FALSE, val |-> PyNone]
    ELSE IF no_str_method(phone) THEN [raised |-> TRUE, val |-> PyNone]
    ELSE IF Lower(phone) = Lit("null") THEN [raised |-> FALSE, val |-> PyNone]
    ELSE LET digits == digits_of(phone) IN
         IF digit_len(digits) >= MinPhoneDigits
         THEN [raised |-> FALSE, val |-> Lit(digits)]
         ELSE [raised |-> FALSE, val |-> PyNone]

\* GatekeeperAgent._clean_name
clean_name(name) ==
    IF name.t = "none" \/ (name.t = "str" /\ ~Truthy(name)) THEN [raised |-> FALSE, val |-> PyNone]
    ELSE IF no_str_method(name) THEN [raised |-> TRUE, val |-> PyNone]
    ELSE IF Lower(name) = Lit("null") THEN [raised |-> FALSE, val |-> PyNone]
    ELSE LET cleaned == Strip(name) IN
         IF cleaned.word # "" THEN [raised |-> FALSE, val |-> cleaned]
         ELSE [raised |-> FALSE, val |-> PyNone]

valid_stages_gatekeeper == {"opening", "requesting", "handling_objection", "success", "failed"}

\* Stage validation of GatekeeperAgent.forward
gatekeeper_validate_stage(raw_stage) ==
    LET s == Strip(Lower(raw_stage)) IN
    IF s.word \in valid_stages_gatekeeper THEN s.word ELSE "handling_objection"

\* the contact rule overriding a failed conversation as well
gatekeeper_contact_rule_always(contact, stage) ==
    IF Truthy(contact) THEN "success" ELSE stage

\* the contact rule of GatekeeperAgent.forward
gatekeeper_contact_rule(contact, stage) ==
    IF Truthy(contact) /\ stage \notin {"success", "failed"} THEN "success" ELSE stage

\* should_continue of GatekeeperAgent.forward
gatekeeper_should_continue(raw_sc) ==
    Strip(Lower(raw_sc)) = Lit("true")

RaisedRes == [raised |-> TRUE]
GatekeeperFallbackResponse == PyStr("desculpe, tive um problema. poderia repetir?", TRUE, FALSE)

\* GatekeeperAgent.forward, after self.process(...) returned `raw`
gatekeeper_forward(req, raw) ==
    LET contact == clean_phone(raw.extracted_contact)
        name == clean_name(raw.extracted_name)
    IN IF contact.raised \/ name.raised
          \/ no_str_method(raw.should_continue)
          \/ no_str_method(raw.conversation_stage)
          \/ no_str_method(raw.response_message)
       THEN RaisedRes
       ELSE LET st0 == gatekeeper_validate_stage(raw.conversation_stage)
                st1 == gatekeeper_contact_rule(contact.val, st0)
            IN [raised |-> FALSE,
                reasoning |-> raw.reasoning,
                response_message |-> Strip(raw.response_message),
                conversation_stage |-> st1,
                extracted_manager_contact |-> contact.val,
                extracted_manager_name |-> name.val,
                should_send_message |-> gatekeeper_should_continue(raw.should_continue)]

\* the dict process_message returns when forward raised (gatekeeper/graph.py)
gatekeeper_fallback ==
    [raised |-> FALSE,
     reasoning |-> ErrorReasoning,
     response_message |-> GatekeeperFallbackResponse,
     conversation_stage |-> "handling_objection",
     extracted_manager_contact |-> PyNone,
     extracted_manager_name |-> PyNone,
     should_send_message |-> TRUE]


(***************************************************************************)
(* Requests and reasoner outputs the SDR endpoints are driven with         *)
(***************************************************************************)
\* a stage word outside both closed sets
BogusStage == "negotiating"
\* a field as the reasoner may word it: bare, or capitalised with whitespace around it
Dressed(words) == {Lit(w) : w \in words} \cup {PyStr(w, TRUE, TRUE) : w \in words}

LatestMessages == {PyNone, Lit(PlainText), Lit(QuestionText)}
AttemptCounts == 0..MaxAttempt

CloserReqs ==
    [latest_message : LatestMessages, available_slots : {0, 2}, attempt_count : AttemptCounts]
GatekeeperReqs ==
    [latest_message : LatestMessages, attempt_count : AttemptCounts]

ShouldContinueRaws ==
    {PyNone, Lit("true"), Lit("false"), PyStr("true", TRUE, TRUE), PyOther("false", TRUE)}
CloserStageRaws ==
    {PyNone, PyOther("7", FALSE)} \cup Dressed(valid_stages_closer \cup {BogusStage})
DatetimeRaws ==
    {PyNone, Lit("null"), PyStr("null", TRUE, TRUE), Lit(""),
     Lit(formats_to_try[1]), PyStr(formats_to_try[4], FALSE, TRUE),
     Lit(DtEmbedded), Lit(DtBadFields), Lit(DtGarbage)}
GatekeeperStageRaws ==
    {PyNone} \cup Dressed(valid_stages_gatekeeper \cup {BogusStage})
ContactRaws ==
    {PyNone, Lit("null"), PyStr("null", FALSE, TRUE), PyOther("11999887766", FALSE),
     Lit(PhoneMobile), Lit(PhoneLandline), Lit(PhoneNine), Lit(PhoneEight),
     Lit(PhoneFour), Lit(PhoneNoDigits)}
NameRaws == {PyNone, Lit("null"), PyStr("dr. carlos", TRUE, TRUE)}
ResponseRaws == {PyNone, PyStr("ola, tudo bem?", TRUE, TRUE)}
ReasoningRaws == {PyNone, Lit("lead engajado")}

\* self.process(...) raised (timeout, transport error, quota)
ReasonerFailure == [failed |-> TRUE]

CloserRaws ==
    [failed : {FALSE}, conversation_stage : CloserStageRaws,
     meeting_datetime : DatetimeRaws, should_continue : ShouldContinueRaws,
     reasoning : ReasoningRaws, response_message : ResponseRaws]
GatekeeperRaws ==
    [failed : {FALSE}, conversation_stage : GatekeeperStageRaws,
     extracted_contact : ContactRaws, extracted_name : NameRaws,
     should_continue : ShouldContinueRaws,
     reasoning : ReasoningRaws, response_message : ResponseRaws]

NoReq == [attempt_count |-> 0]
NoRes == [raised |-> FALSE]

\* the node letting the exception of forward leave the graph run
closer_process_message_reraise(res) == res

\* closer/graph.py process_message
closer_process_message(res) == IF res.raised THEN closer_fallback ELSE res
\* gatekeeper/graph.py process_message
gatekeeper_process_message(res) == IF res.raised THEN gatekeeper_fallback ELSE res

\* POST /v1/sdr/closer: one run of closer_graph
sdr_closer ==
    /\ sdrFlow = "idle"
    /\ \E req \in CloserReqs, raw \in CloserRaws \cup {ReasonerFailure} :
         LET res == IF raw.failed THEN RaisedRes ELSE closer_forward(req, raw) IN
         /\ sdrFlow' = "closer"
         /\ sdrReq' = req
         /\ sdrRaw' = raw
         /\ sdrRes' = res
         /\ sdrOut' = closer_process_message(res)
    /\ UNCHANGED <<sdrCalls, sdrLocals, sdrConv, reVars, rtVars>>

\* POST /v1/sdr/gatekeeper: one run of gatekeeper_graph
sdr_gatekeeper ==
    /\ sdrFlow = "idle"
    /\ \E req \in GatekeeperReqs, raw \in GatekeeperRaws \cup {ReasonerFailure} :
         LET res == IF raw.failed THEN RaisedRes ELSE gatekeeper_forward(req, raw) IN
         /\ sdrFlow' = "gatekeeper"
         /\ sdrReq' = req
         /\ sdrRaw' = raw
         /\ sdrRes' = res
         /\ sdrOut' = gatekeeper_process_message(res)
    /\ UNCHANGED <<sdrCalls, sdrLocals, sdrConv, reVars, rtVars>>

\* the endpoint returns its response; nothing of the request is kept
sdr_respond ==
    /\ sdrFlow # "idle"
    /\ sdrFlow' = "idle"
    /\ sdrReq' = NoReq
    /\ sdrRaw' = ReasonerFailure
    /\ sdrRes' = NoRes
    /\ sdrOut' = NoRes
    /\ UNCHANGED <<sdrCalls, sdrLocals, sdrConv, reVars, rtVars>>


(***************************************************************************)
(* Concurrent requests through the closer_agent / gatekeeper_agent         *)
(* singletons: the steps of process_message and forward, call by call      *)
(***************************************************************************)
Calls == 1..MaxCalls
IdleCall == [pc |-> "idle", flow |-> "none", req |-> NoReq, raw |-> ReasonerFailure, out |-> NoRes]
NoLocals == [stage |-> ""]

\* the requests and predictions the concurrent calls are driven with
ConcCloserReqs ==
    [latest_message : {Lit(PlainText), Lit(QuestionText)}, available_slots : {2}, attempt_count : {0}]
ConcGatekeeperReqs ==
    [latest_message : {Lit(PlainText)}, attempt_count : {0}]
ConcCloserRaws ==
    [failed : {FALSE},
     conversation_stage : {Lit("scheduled"), Lit("pitching"), PyStr(BogusStage, TRUE, TRUE)},
     meeting_datetime : {Lit(formats_to_try[1])}, should_continue : {Lit("true")},
     reasoning : {Lit("lead engajado")}, response_message : {PyStr("ola, tudo bem?", TRUE, TRUE)}]
ConcGatekeeperRaws ==
    [failed : {FALSE},
     conversation_stage : {Lit("requesting"), Lit("failed"), PyNone},
     extracted_contact : {PyNone, Lit(PhoneMobile)}, extracted_name : {PyNone},
     should_continue : {Lit("true")},
     reasoning : {Lit("lead engajado")}, response_message : {PyStr("ola, tudo bem?", TRUE, TRUE)}]

\* the locals of every call kept in one place on the singleton agent
forward_frame_shared(call) == 1

\* the frame holding the local variables of a call of forward: its own
forward_frame(call) == call

\* the endpoint invokes the graph: process_message starts with the request
invoke_graph(i) ==
    /\ sdrCalls[i].pc = "idle"
    /\ \/ \E req \in ConcCloserReqs :
            sdrCalls' = [sdrCalls EXCEPT ![i] = [@ EXCEPT !.pc = "invoked", !.flow = "closer", !.req = req]]
       \/ \E req \in ConcGatekeeperReqs :
            sdrCalls' = [sdrCalls EXCEPT ![i] = [@ EXCEPT !.pc = "invoked", !.flow = "gatekeeper", !.req = req]]
    /\ UNCHANGED <<sdrFlow, sdrReq, sdrRaw, sdrRes, sdrOut, sdrLocals, sdrConv, reVars, rtVars>>

\* forward calls self.process(...): it returns a prediction, or raises and
\* process_message returns its fallback
call_reasoner(i) ==
    /\ sdrCalls[i].pc = "invoked"
    /\ \/ \E raw \in IF sdrCalls[i].flow = "closer" THEN ConcCloserRaws ELSE ConcGatekeeperRaws :
            sdrCalls' = [sdrCalls EXCEPT ![i] = [@ EXCEPT !.pc = "predicted", !.raw = raw]]
       \/ sdrCalls' = [sdrCalls EXCEPT ![i] = [@ EXCEPT
                          !.pc = "returned",
                          !.out = IF sdrCalls[i].flow = "closer"
                                  THEN closer_process_message(RaisedRes)
                                  ELSE gatekeeper_process_message(RaisedRes)]]
    /\ UNCHANGED <<sdrFlow, sdrReq, sdrRaw, sdrRes, sdrOut, sdrLocals, sdrConv, reVars, rtVars>>

\* forward parses the fields of the prediction into its local variables
validate_fields(i) ==
    /\ sdrCalls[i].pc = "predicted"
    /\ LET c == sdrCalls[i] IN
       IF c.flow = "closer"
       THEN /\ sdrLocals' = [sdrLocals EXCEPT ![forward_frame(i)] =
                                [stage |-> closer_validate_stage(c.raw.conversation_stage)]]
            /\ sdrCalls' = [sdrCalls EXCEPT ![i] = [@ EXCEPT !.pc = "validated"]]
       ELSE IF gatekeeper_forward(c.req, c.raw).raised
            THEN /\ sdrCalls' = [sdrCalls EXCEPT ![i] = [@ EXCEPT
                                    !.pc = "returned",
                                    !.out = gatekeeper_process_message(RaisedRes)]]
                 /\ UNCHANGED sdrLocals
            ELSE /\ sdrLocals' = [sdrLocals EXCEPT ![forward_frame(i)] =
                                     [stage |-> gatekeeper_validate_stage(c.raw.conversation_stage)]]
                 /\ sdrCalls' = [sdrCalls EXCEPT ![i] = [@ EXCEPT !.pc = "validated"]]
    /\ UNCHANGED <<sdrFlow, sdrReq, sdrRaw, sdrRes, sdrOut, sdrConv, reVars, rtVars>>

\* forward applies its correction rules to the local stage and returns; the
\* frame of the call is gone
apply_rules(i) ==
    /\ sdrCalls[i].pc = "validated"
    /\ LET c == sdrCalls[i]
           raw == [c.raw EXCEPT !.conversation_stage = Lit(sdrLocals[forward_frame(i)].stage)]
       IN sdrCalls' = [sdrCalls EXCEPT ![i] = [@ EXCEPT
                         !.pc = "returned",
                         !.out = IF c.flow = "closer"
                                 THEN closer_process_message(closer_forward(c.req, raw))
                                 ELSE gatekeeper_process_message(gatekeeper_forward(c.req, raw))]]
    /\ sdrLocals' = [sdrLocals EXCEPT ![forward_frame(i)] = NoLocals]
    /\ UNCHANGED <<sdrFlow, sdrReq, sdrRaw, sdrRes, sdrOut, sdrConv, reVars, rtVars>>

\* the endpoint returns the response of the call
send_response(i) ==
    /\ sdrCalls[i].pc = "returned"
    /\ sdrCalls' = [sdrCalls EXCEPT ![i] = IdleCall]
    /\ UNCHANGED <<sdrFlow, sdrReq, sdrRaw, sdrRes, sdrOut, sdrLocals, sdrConv, reVars, rtVars>>

ConcNext ==
    \E i \in Calls :
        \/ invoke_graph(i)
        \/ call_reasoner(i)
        \/ validate_fields(i)
        \/ apply_rules(i)
        \/ send_response(i)


(***************************************************************************)
(* One SDR conversation over its turns: the caller of main.py posts the    *)
(* conversation again whenever the counterpart wrote, with attempt_count   *)
(* the number of agent turns already sent                                  *)
(***************************************************************************)
NoTurn == [stage |-> "", should_send_message |-> FALSE, attempt_count |-> 0, fallback |-> FALSE]
NoConv == [flow |-> "none", turns |-> 0, attempt_count |-> 0, closed |-> FALSE, last |-> NoTurn]

\* the terminal stages of a flow
terminal_stages(flow) ==
    IF flow = "closer" THEN {"scheduled", "lost"}
    ELSE IF flow = "gatekeeper" THEN {"success", "failed"}
    ELSE {}

\* the predictions the turns of a conversation are driven with
ConvCloserRaws ==
    [failed : {FALSE},
     conversation_stage : {Lit("greeting"), Lit("pitching"), Lit("confirming"), Lit("scheduled"), Lit("lost")},
     meeting_datetime : {PyNone, Lit(formats_to_try[1])},
     should_continue : {Lit("true"), Lit("false")},
     reasoning : {Lit("lead engajado")}, response_message : {PyStr("ola, tudo bem?", TRUE, TRUE)}]
ConvGatekeeperRaws ==
    [failed : {FALSE},
     conversation_stage : {Lit("opening"), Lit("requesting"), Lit("handling_objection"),
                           Lit("success"), Lit("failed")},
     extracted_contact : {PyNone, Lit(PhoneMobile)}, extracted_name : {PyNone},
     should_continue : {Lit("true"), Lit("false")},
     reasoning : {Lit("lead engajado")}, response_message : {PyStr("ola, tudo bem?", TRUE, TRUE)}]

\* the conversation after a turn returned `out`: the response is sent, and
\* counted as an agent turn, when should_send_message is true
next_turn(flow, raw, out) ==
    [flow |-> flow,
     turns |-> sdrConv.turns + 1,
     attempt_count |-> sdrConv.attempt_count + (IF out.should_send_message THEN 1 ELSE 0),
     closed |-> sdrConv.closed \/ sdrConv.last.stage \in terminal_stages(sdrConv.flow),
     last |-> [stage |-> out.conversation_stage,
               should_send_message |-> out.should_send_message,
               attempt_count |-> sdrConv.attempt_count,
               fallback |-> raw.failed]]

\* POST /v1/sdr/closer for the next turn of the conversation
closer_turn ==
    /\ sdrConv.flow \in {"none", "closer"}
    /\ sdrConv.turns < MaxTurns
    /\ \E latest \in {Lit(PlainText), Lit(QuestionText)}, raw \in ConvCloserRaws \cup {ReasonerFailure} :
         LET req == [latest_message |-> latest, available_slots |-> 2,
                     attempt_count |-> sdrConv.attempt_count]
             res == IF raw.failed THEN RaisedRes ELSE closer_forward(req, raw)
         IN sdrConv' = next_turn("closer", raw, closer_process_message(res))
    /\ UNCHANGED <<sdrFlow, sdrReq, sdrRaw, sdrRes, sdrOut, sdrCalls, sdrLocals, reVars, rtVars>>

\* POST /v1/sdr/gatekeeper for the next turn of the conversation
gatekeeper_turn ==
    /\ sdrConv.flow \in {"none", "gatekeeper"}
    /\ sdrConv.turns < MaxTurns
    /\ \E raw \in ConvGatekeeperRaws \cup {ReasonerFailure} :
         LET req == [latest_message |-> Lit(PlainText), attempt_count |-> sdrConv.attempt_count]
             res == IF raw.failed THEN RaisedRes ELSE gatekeeper_forward(req, raw)
         IN sdrConv' = next_turn("gatekeeper", raw, gatekeeper_process_message(res))
    /\ UNCHANGED <<sdrFlow, sdrReq, sdrRaw, sdrRes, sdrOut, sdrCalls, sdrLocals, reVars, rtVars>>

ConvNext == closer_turn \/ gatekeeper_turn


(***************************************************************************)
(* Re-engagement review loop: app/agents/reengage/graph.py                 *)
(***************************************************************************)
\* revision ceiling of decide_to_retry
MaxRevisions == 3

FeedbackPraise == "excelente, parabens"
FeedbackAdequate == "mensagem adequada ao perfil"
FeedbackInadequate == "mensagem inadequada, tom agressivo"
FeedbackRewrite == "tom agressivo, reescrever"
FeedbackTooLong == "mensagem longa demais"
Feedbacks ==
    {FeedbackPraise, FeedbackAdequate, FeedbackInadequate, FeedbackRewrite, FeedbackTooLong}
\* "adequada" in feedback or "parabéns" in feedback or "excelente" in feedback
looks_positive(feedback) ==
    feedback \in {FeedbackPraise, FeedbackAdequate, FeedbackInadequate}

\* what the reasoner may put in is_approved: a bool, or text
ApprovedRaws == {PyOther("true", TRUE), PyOther("false", TRUE), Lit("true"), Lit("sim")}

\* CriticAgent.forward: the dict it returns
critic_forward(raw_approved, feedback) ==
    LET approved == Lower(py_str(raw_approved)) = Lit("true") IN
    [is_approved |-> IF looks_positive(feedback) THEN TRUE ELSE approved,
     critic_feedback |-> feedback,
     revision_count |-> 1]

\* operator.add, the reducer of the revision_count channel
revision_count_reducer(current, update) == current + update

\* the conditional edge without its revision ceiling
decide_to_retry_no_ceiling(state) ==
    IF state.is_approved = TRUE THEN "END" ELSE "copywriter"

\* the conditional edge with the ceiling compared strictly
decide_to_retry_strict(state) ==
    IF state.is_approved = TRUE \/ state.revision_count > MaxRevisions
    THEN "END" ELSE "copywriter"

\* the conditional edge sending a rejected copy back to the strategist
decide_to_retry_reselect(state) ==
    IF state.is_approved = TRUE \/ state.revision_count >= MaxRevisions
    THEN "END" ELSE "strategist"

\* the conditional edge giving up after the second review
decide_to_retry_early(state) ==
    IF state.is_approved = TRUE \/ state.revision_count >= MaxRevisions - 1
    THEN "END" ELSE "copywriter"

\* decide_to_retry
decide_to_retry(state) ==
    IF state.is_approved = TRUE \/ state.revision_count >= MaxRevisions
    THEN "END" ELSE "copywriter"

\* the input reengage_lead hands to reengage_graph.invoke
ReInitialState ==
    [analyst_diagnosis |-> "none", selected_strategy |-> "none", generated_copy |-> 0,
     critic_feedback |-> "none", is_approved |-> FALSE, revision_count |-> 0]

\* an executed node, with str(res.is_approved).lower() of the reasoner and the verdict the node returned
LogEntry(node, raw_verdict, verdict) == [node |-> node, raw_verdict |-> raw_verdict, verdict |-> verdict]

\* node "analyst": call_analyst catches a failure of the reasoner
call_analyst ==
    /\ rePc = "analyst"
    /\ Len(reLog) < MaxReSteps
    /\ \E failed \in BOOLEAN :
         reState' = [reState EXCEPT !.analyst_diagnosis =
                        IF failed THEN "Error during analysis" ELSE "diagnosis"]
    /\ rePc' = "strategist"
    /\ reLog' = Append(reLog, LogEntry("analyst", "", FALSE))
    /\ UNCHANGED <<sdrVars, rtVars>>

\* node "strategist": call_strategist has no handler, a failure leaves the graph
call_strategist ==
    /\ rePc = "strategist"
    /\ Len(reLog) < MaxReSteps
    /\ \E failed \in BOOLEAN :
         IF failed
         THEN rePc' = "raised" /\ UNCHANGED reState
         ELSE /\ rePc' = "copywriter"
              /\ reState' = [reState EXCEPT !.selected_strategy = "strategy"]
    /\ reLog' = Append(reLog, LogEntry("strategist", "", FALSE))
    /\ UNCHANGED <<sdrVars, rtVars>>

\* node "copywriter": call_copywriter; generated_copy counts the copies written
call_copywriter ==
    /\ rePc = "copywriter"
    /\ Len(reLog) < MaxReSteps
    /\ \E failed \in BOOLEAN :
         IF failed
         THEN rePc' = "raised" /\ UNCHANGED reState
         ELSE /\ rePc' = "critic"
              /\ reState' = [reState EXCEPT !.generated_copy = @ + 1]
    /\ reLog' = Append(reLog, LogEntry("copywriter", "", FALSE))
    /\ UNCHANGED <<sdrVars, rtVars>>

\* node "critic" and its conditional edge: call_critic, then decide_to_retry
call_critic ==
    /\ rePc = "critic"
    /\ Len(reLog) < MaxReSteps
    /\ \E failed \in BOOLEAN, raw_approved \in ApprovedRaws, feedback \in Feedbacks :
         IF failed
         THEN /\ rePc' = "raised"
              /\ reLog' = Append(reLog, LogEntry("critic", "", FALSE))
              /\ UNCHANGED reState
         ELSE LET upd == critic_forward(raw_approved, feedback)
                  next == [reState EXCEPT
                             !.is_approved = upd.is_approved,
                             !.critic_feedback = upd.critic_feedback,
                             !.revision_count = revision_count_reducer(@, upd.revision_count)]
              IN /\ reState' = next
                 /\ rePc' = decide_to_retry(next)
                 /\ reLog' = Append(reLog,
                        LogEntry("critic", py_str(raw_approved).word, upd.is_approved))
    /\ UNCHANGED <<sdrVars, rtVars>>

ReNext == call_analyst \/ call_strategist \/ call_copywriter \/ call_critic


(***************************************************************************)
(* Router graph: app/agents/router/router.py, served by api.py             *)
(***************************************************************************)
\* IntentType of router.py
IntentType == {"SALES", "SCHEDULING", "TECH_FAQ", "MEDICAL_ASSESSMENT", "GENERAL_INFO"}
\* the closed IntentCategory enumeration (IntentType of router/signatures.py)
IntentCategory ==
    {"SESSION_START", "SESSION_CLOSURE", "SERVICE_SCHEDULING", "SERVICE_RESCHEDULING",
     "SERVICE_CANCELLATION", "INTAKE", "MEDICAL_ASSESSMENT", "PROCEDURE_INQUIRY",
     "AD_CONVERSION", "ORGANIC_INQUIRY", "OFFER_CONVERSION", "REENGAGEMENT_RECOVERY",
     "GENERAL_INFO", "IMAGE_ASSESSMENT", "HUMAN_ESCALATION", "UNCLASSIFIED"}
\* the strings a raw category list is drawn from
RawIntents == IntentType \cup {"SERVICE_SCHEDULING", "banana"}

SeqsUpTo(S, n) == UNION {[1..k -> S] : k \in 0..n}
Elems(q) == {q[i] : i \in 1..Len(q)}

\* the dispatcher with scheduling tested before the medical category
should_continue_scheduling_first(intent_queue) ==
    IF intent_queue = <<>> THEN "__end__"
    ELSE IF "SCHEDULING" \in Elems(intent_queue) THEN "scheduler_agent"
    ELSE IF "MEDICAL_ASSESSMENT" \in Elems(intent_queue) THEN "medical_agent"
    ELSE IF "SALES" \in Elems(intent_queue) THEN "closer_agent"
    ELSE IF "TECH_FAQ" \in Elems(intent_queue) THEN "faq_agent"
    ELSE "__end__"

\* the dispatcher deciding on the first element of the queue only
should_continue_first_only(intent_queue) ==
    IF intent_queue = <<>> THEN "__end__"
    ELSE IF "MEDICAL_ASSESSMENT" = intent_queue[1] THEN "medical_agent"
    ELSE IF "SCHEDULING" = intent_queue[1] THEN "scheduler_agent"
    ELSE IF "SALES" = intent_queue[1] THEN "closer_agent"
    ELSE IF "TECH_FAQ" = intent_queue[1] THEN "faq_agent"
    ELSE "__end__"

\* should_continue of router.py: the conditional edge after the router node
should_continue(intent_queue) ==
    IF intent_queue = <<>> THEN "__end__"
    ELSE IF "MEDICAL_ASSESSMENT" \in Elems(intent_queue) THEN "medical_agent"
    ELSE IF "SCHEDULING" \in Elems(intent_queue) THEN "scheduler_agent"
    ELSE IF "SALES" \in Elems(intent_queue) THEN "closer_agent"
    ELSE IF "TECH_FAQ" \in Elems(intent_queue) THEN "faq_agent"
    ELSE "__end__"

\* router_node: the update it returns for the intent_queue channel
router_node_intents(prediction_intents) == prediction_intents

\* operator.add, the reducer of the intent_queue channel
intent_queue_reducer(current, update) == current \o update

\* an urgency value: an int, a text, or None
UrgInt(n) == [t |-> "int", n |-> n, text |-> ""]
UrgText(text) == [t |-> "str", n |-> 0, text |-> text]
UrgNone == [t |-> "none", n |-> 0, text |-> ""]
\* the texts an urgency may be worded with, and int(text) of the numeric ones
NumericTexts == {"4", "9"}
int_of_text(text) == IF text = "4" THEN 4 ELSE 9
UrgencyRaws ==
    {UrgInt(0), UrgInt(1), UrgInt(3), UrgInt(5), UrgInt(7),
     UrgText("4"), UrgText("9"), UrgText("alta"), UrgNone}

\* bounds of RouterResponse.urgency_score: Field(ge=1, le=5)
UrgencyMin == 1
UrgencyMax == 5

\* validation of the int field urgency_score of RouterResponse: an int is
\* taken as it is, numeric text is converted, anything else is an error,
\* and so is a value outside ge / le
validate_urgency_score(v) ==
    LET parsed == IF v.t = "int" THEN [ok |-> TRUE, n |-> v.n]
                  ELSE IF v.t = "str" /\ v.text \in NumericTexts
                       THEN [ok |-> TRUE, n |-> int_of_text(v.text)]
                       ELSE [ok |-> FALSE, n |-> 0]
    IN IF parsed.ok /\ parsed.n >= UrgencyMin /\ parsed.n <= UrgencyMax
       THEN parsed ELSE [ok |-> FALSE, n |-> 0]

\* validation of the str field reasoning of RouterResponse
validate_reasoning(v) == v.t = "str"

\* the input route_message hands to graph.invoke
RtInitialState ==
    [intent_queue |-> <<>>, final_response |-> "", urgency_score |-> UrgInt(0), reasoning |-> Lit("")]
NoResponse == [intents |-> <<>>, routed_to |-> "", response |-> ""]

\* a prediction: its intents field is a list of strings, or not a list at all
ListIntents(items) == [is_list |-> TRUE, items |-> items]
NonListIntents == [is_list |-> FALSE, items |-> <<>>]
NoPrediction == ListIntents(<<>>)
\* a prediction of the classifier: intents, urgency_score, reasoning
Prediction(intents, urgency, reasoning) ==
    [is_list |-> intents.is_list, items |-> intents.items,
     urgency_score |-> urgency, reasoning |-> reasoning]

\* node "router" and its conditional edge.  A prediction whose intents are
\* not a list (a string, None) makes the reducer raise TypeError.
router_node ==
    /\ rtPc = "router"
    /\ \E urgency \in UrgencyRaws, reasoning \in ReasoningRaws :
         \/ \E intents \in SeqsUpTo(RawIntents, MaxQueue) :
              LET queue == intent_queue_reducer(rtState.intent_queue, router_node_intents(intents)) IN
              /\ rtRaw' = Prediction(ListIntents(intents), urgency, reasoning)
              /\ rtState' = [rtState EXCEPT !.intent_queue = queue,
                                            !.urgency_score = urgency,
                                            !.reasoning = reasoning]
              /\ rtPc' = should_continue(queue)
         \/ /\ rtRaw' = Prediction(NonListIntents, urgency, reasoning)
            /\ rtPc' = "raised"
            /\ UNCHANGED rtState
    /\ rtLog' = Append(rtLog, "router")
    /\ UNCHANGED <<rtResp, sdrVars, reVars>>

\* a placeholder agent node that takes the category it serves off the queue
placeholder_agent_consuming(node, text) ==
    /\ rtPc = node
    /\ rtState' = [rtState EXCEPT !.final_response = text, !.intent_queue = Tail(@)]
    /\ rtPc' = "__end__"
    /\ rtLog' = Append(rtLog, node)
    /\ UNCHANGED <<rtRaw, rtResp, sdrVars, reVars>>

\* a placeholder agent node: it writes final_response and the run ends
placeholder_agent(node, text) ==
    /\ rtPc = node
    /\ rtState' = [rtState EXCEPT !.final_response = text]
    /\ rtPc' = "__end__"
    /\ rtLog' = Append(rtLog, node)
    /\ UNCHANGED <<rtRaw, rtResp, sdrVars, reVars>>

placeholder_closer_agent == placeholder_agent("closer_agent", "[CLOSER AGENT]")
placeholder_scheduler_agent == placeholder_agent("scheduler_agent", "[SCHEDULER AGENT]")
placeholder_medical_agent == placeholder_agent("medical_agent", "[MEDICAL AGENT]")
placeholder_faq_agent == placeholder_agent("faq_agent", "[FAQ AGENT]")

\* api.py route_message, after graph.invoke returned: the RouterResponse
route_message_response(result) ==
    LET routed_to == should_continue(result.intent_queue) IN
    [intents |-> result.intent_queue,
     urgency_score |-> validate_urgency_score(result.urgency_score).n,
     reasoning |-> result.reasoning,
     routed_to |-> IF routed_to = "__end__" THEN "none" ELSE routed_to,
     response |-> result.final_response]

\* RouterResponse(...) passes the validation of its fields
response_valid(result) ==
    validate_urgency_score(result.urgency_score).ok /\ validate_reasoning(result.reasoning)

\* route_message builds the response from the final state of the run; an
\* exception of graph.invoke or of RouterResponse(...) becomes HTTP 500
route_message ==
    /\ rtPc \in {"__end__", "raised"}
    /\ IF rtPc = "__end__" /\ response_valid(rtState)
       THEN /\ rtPc' = "responded"
            /\ rtResp' = route_message_response(rtState)
       ELSE /\ rtPc' = "http_500"
            /\ UNCHANGED rtResp
    /\ rtLog' = Append(rtLog, "response")
    /\ UNCHANGED <<rtState, rtRaw, sdrVars, reVars>>

RtNext ==
    \/ router_node
    \/ placeholder_closer_agent
    \/ placeholder_scheduler_agent
    \/ placeholder_medical_agent
    \/ placeholder_faq_agent
    \/ route_message

(***************************************************************************)
(* The router graph as written in app/agents/router/agent.py               *)
(***************************************************************************)
\* IntentType of agent.py
AgentIntentType ==
    {"SESSION_START", "SESSION_CLOSURE", "SERVICE_SCHEDULING", "SERVICE_RESCHEDULING",
     "SERVICE_CANCELLATION", "MEDICAL_ASSESSMENT", "PROCEDURE_INQUIRY", "AD_CONVERSION",
     "ORGANIC_INQUIRY", "OFFER_CONVERSION", "REENGAGEMENT_RECOVERY", "GENERAL_INFO",
     "IMAGE_ASSESSMENT", "HUMAN_ESCALATION"}
\* the strings a raw category list of this variant is drawn from
AgentRawIntents ==
    {"MEDICAL_ASSESSMENT", "SERVICE_SCHEDULING", "PROCEDURE_INQUIRY", "GENERAL_INFO",
     "SCHEDULING", "banana"}

\* IntentType.<name>.value in intent_queue: the attribute lookup raises
\* AttributeError when the enumeration has no member of that name
agent_member_test(name, intent_queue) ==
    IF name \notin AgentIntentType THEN "raised"
    ELSE IF name \in Elems(intent_queue) THEN "hit" ELSE "miss"

\* should_continue of agent.py: the tests in the order of the code, each
\* reached only when the one before it missed
agent_should_continue(intent_queue) ==
    IF intent_queue = <<>> THEN "__end__"
    ELSE LET medical == agent_member_test("MEDICAL_ASSESSMENT", intent_queue)
             scheduling == agent_member_test("SCHEDULING", intent_queue)
             sales == agent_member_test("SALES", intent_queue)
             tech_faq == agent_member_test("TECH_FAQ", intent_queue)
         IN IF medical # "miss" THEN (IF medical = "hit" THEN "medical_agent" ELSE "raised")
            ELSE IF scheduling # "miss" THEN (IF scheduling = "hit" THEN "scheduler_agent" ELSE "raised")
            ELSE IF sales # "miss" THEN (IF sales = "hit" THEN "closer_agent" ELSE "raised")
            ELSE IF tech_faq # "miss" THEN (IF tech_faq = "hit" THEN "faq_agent" ELSE "raised")
            ELSE "__end__"

\* node "router" of agent.py and its conditional edge
agent_router_node ==
    /\ rtPc = "router"
    /\ \E urgency \in UrgencyRaws, rationale \in ReasoningRaws :
         \/ \E intents \in SeqsUpTo(AgentRawIntents, MaxQueue) :
              LET queue == intent_queue_reducer(rtState.intent_queue, router_node_intents(intents)) IN
              /\ rtRaw' = Prediction(ListIntents(intents), urgency, rationale)
              /\ rtState' = [rtState EXCEPT !.intent_queue = queue,
                                            !.urgency_score = urgency,
                                            !.reasoning = rationale]
              /\ rtPc' = agent_should_continue(queue)
         \/ /\ rtRaw' = Prediction(NonListIntents, urgency, rationale)
            /\ rtPc' = "raised"
            /\ UNCHANGED rtState
    /\ rtLog' = Append(rtLog, "router")
    /\ UNCHANGED <<rtResp, sdrVars, reVars>>

\* node "medical_agent" of agent.py, the one agent node its edge can reach
agent_placeholder_medical_agent == placeholder_agent("medical_agent", "[MEDICAL AGENT]")

AgNext == agent_router_node \/ agent_placeholder_medical_agent

(***************************************************************************)
(* Specifications                                                          *)
(***************************************************************************)
\* the SDR endpoints, the graphs of the other flows not running
SdrInit ==
    /\ sdrFlow = "idle"
    /\ sdrReq = NoReq
    /\ sdrRaw = ReasonerFailure
    /\ sdrRes = NoRes
    /\ sdrOut = NoRes
    /\ sdrCalls = [i \in Calls |-> IdleCall]
    /\ sdrLocals = [i \in Calls |-> NoLocals]
    /\ sdrConv = NoConv
    /\ rePc = "idle"
    /\ reState = ReInitialState
    /\ reLog = <<>>
    /\ rtPc = "idle"
    /\ rtState = RtInitialState
    /\ rtLog = <<>>
    /\ rtRaw = NoPrediction
    /\ rtResp = NoResponse
SdrNext == sdr_closer \/ sdr_gatekeeper \/ sdr_respond
SdrSpec == SdrInit /\ [][SdrNext]_vars

\* one run of the re-engagement graph, started by reengage_lead
ReInit ==
    /\ sdrFlow = "idle"
    /\ sdrReq = NoReq
    /\ sdrRaw = ReasonerFailure
    /\ sdrRes = NoRes
    /\ sdrOut = NoRes
    /\ sdrCalls = [i \in Calls |-> IdleCall]
    /\ sdrLocals = [i \in Calls |-> NoLocals]
    /\ sdrConv = NoConv
    /\ rePc = "analyst"
    /\ reState = ReInitialState
    /\ reLog = <<>>
    /\ rtPc = "idle"
    /\ rtState = RtInitialState
    /\ rtLog = <<>>
    /\ rtRaw = NoPrediction
    /\ rtResp = NoResponse
ReSpec == ReInit /\ [][ReNext]_vars
\* the same run, every node that is entered runs to its end
ReFairSpec == ReSpec /\ WF_vars(ReNext)

\* one request to the router endpoint, started by route_message
RtInit ==
    /\ sdrFlow = "idle"
    /\ sdrReq = NoReq
    /\ sdrRaw = ReasonerFailure
    /\ sdrRes = NoRes
    /\ sdrOut = NoRes
    /\ sdrCalls = [i \in Calls |-> IdleCall]
    /\ sdrLocals = [i \in Calls |-> NoLocals]
    /\ sdrConv = NoConv
    /\ rePc = "idle"
    /\ reState = ReInitialState
    /\ reLog = <<>>
    /\ rtPc = "router"
    /\ rtState = RtInitialState
    /\ rtLog = <<>>
    /\ rtRaw = NoPrediction
    /\ rtResp = NoResponse
RtSpec == RtInit /\ [][RtNext]_vars

\* one run of the graph built by agent.py
AgInit ==
    /\ sdrFlow = "idle"
    /\ sdrReq = NoReq
    /\ sdrRaw = ReasonerFailure
    /\ sdrRes = NoRes
    /\ sdrOut = NoRes
    /\ sdrCalls = [i \in Calls |-> IdleCall]
    /\ sdrLocals = [i \in Calls |-> NoLocals]
    /\ sdrConv = NoConv
    /\ rePc = "idle"
    /\ reState = ReInitialState
    /\ reLog = <<>>
    /\ rtPc = "router"
    /\ rtState = RtInitialState
    /\ rtLog = <<>>
    /\ rtRaw = NoPrediction
    /\ rtResp = NoResponse
AgSpec == AgInit /\ [][AgNext]_vars

\* requests in flight at the same time through the SDR singletons
ConcInit ==
    /\ sdrFlow = "idle"
    /\ sdrReq = NoReq
    /\ sdrRaw = ReasonerFailure
    /\ sdrRes = NoRes
    /\ sdrOut = NoRes
    /\ sdrCalls = [i \in Calls |-> IdleCall]
    /\ sdrLocals = [i \in Calls |-> NoLocals]
    /\ sdrConv = NoConv
    /\ rePc = "idle"
    /\ reState = ReInitialState
    /\ reLog = <<>>
    /\ rtPc = "idle"
    /\ rtState = RtInitialState
    /\ rtLog = <<>>
    /\ rtRaw = NoPrediction
    /\ rtResp = NoResponse
ConcSpec == ConcInit /\ [][ConcNext]_vars

\* one conversation, turn after turn
ConvInit ==
    /\ sdrFlow = "idle"
    /\ sdrReq = NoReq
    /\ sdrRaw = ReasonerFailure
    /\ sdrRes = NoRes
    /\ sdrOut = NoRes
    /\ sdrCalls = [i \in Calls |-> IdleCall]
    /\ sdrLocals = [i \in Calls |-> NoLocals]
    /\ sdrConv = NoConv
    /\ rePc = "idle"
    /\ reState = ReInitialState
    /\ reLog = <<>>
    /\ rtPc = "idle"
    /\ rtState = RtInitialState
    /\ rtLog = <<>>
    /\ rtRaw = NoPrediction
    /\ rtResp = NoResponse
ConvSpec == ConvInit /\ [][ConvNext]_vars

(***************************************************************************)
(* Properties of the SDR validators (checked under SdrSpec)                *)
(***************************************************************************)
CloserReturned == sdrFlow = "closer" /\ ~sdrRes.raised
GatekeeperReturned == sdrFlow = "gatekeeper" /\ ~sdrRes.raised

\* the stage the reasoner proposed, an out-of-set or missing value defaulted to `default`
ProposedStage(valid, default) ==
    LET r == sdrRaw.conversation_stage IN
    IF r.t # "none" /\ r.word \in valid THEN r.word ELSE default

\* C1: every result of CloserAgent.forward has conversation_stage = "scheduled"
\* if and only if meeting_datetime is non-null.
C1_ScheduledIffDatetime ==
    CloserReturned =>
        (sdrRes.conversation_stage = "scheduled" <=> sdrRes.meeting_datetime # PyNone)

\* C2: in both flows a terminal validated stage (scheduled / lost, success /
\* failed) comes with should_send_message = false, whatever the reasoner proposed.
C2_TerminalStops ==
    /\ (CloserReturned /\ sdrRes.conversation_stage \in {"scheduled", "lost"})
          => ~sdrRes.should_send_message
    /\ (GatekeeperReturned /\ sdrRes.conversation_stage \in {"success", "failed"})
          => ~sdrRes.should_send_message

\* C3: in both flows every non-terminal validated stage comes with
\* should_send_message = true.
C3_NonTerminalContinues ==
    /\ (CloserReturned /\ sdrRes.conversation_stage \notin {"scheduled", "lost"})
          => sdrRes.should_send_message
    /\ (GatekeeperReturned /\ sdrRes.conversation_stage \notin {"success", "failed"})
          => sdrRes.should_send_message

\* C4: closer, attempt_count >= 5 and a proposed (defaulted) stage of greeting
\* or pitching: the result is stage "lost", should_send_message false and a
\* null meeting_datetime.
C4_CloserAttemptCeiling ==
    (/\ CloserReturned
     /\ sdrReq.attempt_count >= 5
     /\ ProposedStage(valid_stages_closer, "pitching") \in {"greeting", "pitching"})
    => /\ sdrRes.conversation_stage = "lost"
       /\ sdrRes.should_send_message = FALSE
       /\ sdrRes.meeting_datetime = PyNone

\* a fifth attempt still greeting, the reasoner wanting to go on with a date-time
C4_Witness ==
    /\ CloserReturned
    /\ sdrReq.attempt_count = 5
    /\ sdrRaw.conversation_stage = PyStr("greeting", TRUE, TRUE)
    /\ sdrRaw.should_continue = Lit("true")
    /\ sdrRaw.meeting_datetime = Lit(formats_to_try[1])
    /\ sdrRes.conversation_stage = "lost"

\* C5: gatekeeper, attempt_count >= 5, a proposed stage of opening or
\* requesting and no valid phone contact: the result is stage "failed" with
\* should_send_message false.
C5_GatekeeperAttemptCeiling ==
    (/\ GatekeeperReturned
     /\ sdrReq.attempt_count >= 5
     /\ ProposedStage(valid_stages_gatekeeper, "handling_objection") \in {"opening", "requesting"}
     /\ sdrRes.extracted_manager_contact = PyNone)
    => /\ sdrRes.conversation_stage = "failed"
       /\ sdrRes.should_send_message = FALSE

\* C11: when the reasoner call or a step inside the agent raises,
\* process_message returns the fixed fallback response (stage "pitching" in
\* the closer, "handling_objection" in the gatekeeper, every extracted entity
\* null, meeting_confirmed false, should_send_message true, the error text
\* in reasoning) and no exception leaves the graph run.
C11_FallbackOnFailure ==
    /\ sdrFlow # "idle" => ~sdrOut.raised
    /\ (sdrFlow = "closer" /\ sdrRes.raised) =>
          /\ sdrOut.conversation_stage = "pitching"
          /\ sdrOut.meeting_datetime = PyNone
          /\ sdrOut.meeting_confirmed = FALSE
          /\ sdrOut.should_send_message = TRUE
          /\ sdrOut.reasoning = ErrorReasoning
    /\ (sdrFlow = "gatekeeper" /\ sdrRes.raised) =>
          /\ sdrOut.conversation_stage = "handling_objection"
          /\ sdrOut.extracted_manager_contact = PyNone
          /\ sdrOut.extracted_manager_name = PyNone
          /\ sdrOut.should_send_message = TRUE
          /\ sdrOut.reasoning = ErrorReasoning

\* the reasoner call of the closer failed and the fallback was returned
C11_Witness ==
    /\ sdrFlow = "closer"
    /\ sdrRaw.failed
    /\ sdrRes.raised
    /\ sdrOut = closer_fallback

\* C12: neither validator raises for any reasoner output: whatever fields are
\* missing, non-string or malformed, CloserAgent.forward and
\* GatekeeperAgent.forward return a result.
C12_ValidatorsNeverRaise ==
    (sdrFlow # "idle" /\ ~sdrRaw.failed) => ~sdrRes.raised

\* the reasoner's proposed stage is missing or not a member of the closed set
StageOutOfSet(valid) ==
    LET r == sdrRaw.conversation_stage IN r.t = "none" \/ r.word \notin valid
\* the reasoner's output with its proposed stage replaced
WithStage(stage) == [sdrRaw EXCEPT !.conversation_stage = Lit(stage)]

C20_ScheduledNeedsDatetimeNoQuestion ==
    (CloserReturned /\ ProposedStage(valid_stages_closer, "pitching") = "scheduled") =>
        LET parsed == parse_datetime(safe_str(sdrRaw.meeting_datetime, Lit("null"))) # PyNone
            question == sdrReq.latest_message = Lit(QuestionText)
        IN /\ sdrRes.conversation_stage = IF parsed /\ ~question THEN "scheduled" ELSE "confirming"
           /\ question => sdrRes.meeting_datetime = PyNone

\* a counter-proposal answered with "scheduled" and a date-time by the reasoner
C20_Witness ==
    /\ CloserReturned
    /\ sdrRaw.conversation_stage = Lit("scheduled")
    /\ sdrRaw.meeting_datetime = Lit(formats_to_try[1])
    /\ sdrReq.latest_message = Lit(QuestionText)
    /\ sdrRes.conversation_stage = "confirming"
    /\ sdrRes.meeting_datetime = PyNone

\* the result a call gets when it is processed alone
AloneResult(c) ==
    IF c.flow = "closer"
    THEN closer_process_message(IF c.raw.failed THEN RaisedRes ELSE closer_forward(c.req, c.raw))
    ELSE gatekeeper_process_message(IF c.raw.failed THEN RaisedRes ELSE gatekeeper_forward(c.req, c.raw))

\* C19: requests are independent: in every interleaving of concurrent
\* requests through the closer_agent / gatekeeper_agent singletons each
\* request's validated result is the one it gets when processed alone with
\* the same reasoner output, and no request reads or writes state left by
\* another request.
C19_RequestsIndependent ==
    \A i \in Calls :
        /\ sdrCalls[i].pc = "returned" => sdrCalls[i].out = AloneResult(sdrCalls[i])
        /\ sdrCalls[i].pc = "validated" =>
              sdrLocals[i].stage =
                  IF sdrCalls[i].flow = "closer"
                  THEN closer_validate_stage(sdrCalls[i].raw.conversation_stage)
                  ELSE gatekeeper_validate_stage(sdrCalls[i].raw.conversation_stage)
        /\ sdrCalls[i].pc # "validated" => sdrLocals[i] = NoLocals

\* one call returned while the other, holding a different stage, is still
\* between its validation and its rules
C19_Witness ==
    /\ sdrCalls[1].pc = "returned"
    /\ sdrCalls[1].flow = "closer"
    /\ sdrCalls[1].out.conversation_stage = "scheduled"
    /\ sdrCalls[2].pc = "validated"
    /\ sdrCalls[2].flow = "gatekeeper"
    /\ sdrLocals[2].stage = "failed"

\* C21: in every result of CloserAgent.forward meeting_datetime is null
\* unless the returned stage is "scheduled" or "confirming": a date-time
\* proposed with greeting, pitching, proposing_time or lost is discarded.
C21_DatetimeOnlyWhenCommitting ==
    (CloserReturned /\ sdrRes.conversation_stage \notin {"scheduled", "confirming"})
        => /\ sdrRes.meeting_datetime = PyNone
           /\ sdrRes.meeting_confirmed = FALSE

\* a time proposal that came with a well-formed date-time
C21_Witness ==
    /\ CloserReturned
    /\ sdrRaw.conversation_stage = Lit("proposing_time")
    /\ sdrRaw.meeting_datetime = Lit(formats_to_try[1])
    /\ sdrReq.available_slots = 2
    /\ sdrRes.conversation_stage = "proposing_time"
    /\ sdrRes.meeting_datetime = PyNone

\* C22: CloserAgent.forward never returns "proposing_time" when
\* available_slots is empty: the proposal falls back to "pitching", and as
\* the slot rule runs before the attempt ceiling, the same proposal at
\* attempt_count >= 5 ends as "lost" with should_send_message false.
C22_NoProposalWithoutSlots ==
    (CloserReturned /\ sdrReq.available_slots = 0) =>
        /\ sdrRes.conversation_stage # "proposing_time"
        /\ ProposedStage(valid_stages_closer, "pitching") = "proposing_time" =>
              IF sdrReq.attempt_count >= 5
              THEN sdrRes.conversation_stage = "lost" /\ ~sdrRes.should_send_message
              ELSE sdrRes.conversation_stage = "pitching"

\* a time proposal without slots on the fifth attempt
C22_Witness ==
    /\ CloserReturned
    /\ sdrReq.available_slots = 0
    /\ sdrReq.attempt_count = 5
    /\ sdrRaw.conversation_stage = Lit("proposing_time")
    /\ sdrRaw.should_continue = Lit("true")
    /\ sdrRes.conversation_stage = "lost"

\* C23: in GatekeeperAgent.forward a surviving phone contact makes the
\* returned stage "success", unless the proposed stage was "failed", which
\* stays "failed"; with no surviving contact the proposed (or defaulted)
\* stage is returned unchanged.
C23_ContactForcesSuccess ==
    GatekeeperReturned =>
        LET proposed == ProposedStage(valid_stages_gatekeeper, "handling_objection") IN
        IF sdrRes.extracted_manager_contact # PyNone
        THEN sdrRes.conversation_stage = IF proposed = "failed" THEN "failed" ELSE "success"
        ELSE sdrRes.conversation_stage = proposed

\* a mobile number handed over while the reasoner still reports an objection
C23_Witness ==
    /\ GatekeeperReturned
    /\ sdrRaw.conversation_stage = Lit("handling_objection")
    /\ sdrRaw.extracted_contact = Lit(PhoneMobile)
    /\ sdrRes.extracted_manager_contact = Lit("11999887766")
    /\ sdrRes.conversation_stage = "success"

\* C24: whenever the gatekeeper's returned stage is "success",
\* extracted_manager_contact is non-null: a reasoner answer of "success"
\* with an 8- or 9-digit number is not returned as success with a null contact.
C24_SuccessHasContact ==
    (GatekeeperReturned /\ sdrRes.conversation_stage = "success")
        => sdrRes.extracted_manager_contact # PyNone

\* C26: a number described as a landline is rejected even when its digit
\* count qualifies: reported in extracted_contact with the stage kept at
\* handling_objection, the gatekeeper returns a null contact and does not
\* move the stage to success.
C26_LandlineRejected ==
    (/\ GatekeeperReturned
     /\ sdrRaw.extracted_contact = Lit(PhoneLandline)
     /\ ProposedStage(valid_stages_gatekeeper, "handling_objection") = "handling_objection")
    => /\ sdrRes.extracted_manager_contact = PyNone
       /\ sdrRes.conversation_stage # "success"

\* C25: across a multi-turn closer conversation with attempt_count the
\* number of agent turns already sent, the closer graph never returns
\* should_send_message = true with stage greeting or pitching once
\* attempt_count >= 5, turns answered by the fallback response included.
C25_ConversationCeiling ==
    (sdrConv.flow = "closer" /\ sdrConv.last.attempt_count >= 5)
        => ~(/\ sdrConv.last.should_send_message
             /\ sdrConv.last.stage \in {"greeting", "pitching"})

\* C27: terminal stages are absorbing across the turns of one conversation:
\* once a turn's validated stage is terminal (scheduled / lost, success /
\* failed), no later turn is validated to a non-terminal stage.
C27_TerminalAbsorbing ==
    (sdrConv.closed /\ ~sdrConv.last.fallback)
        => sdrConv.last.stage \in terminal_stages(sdrConv.flow)


(***************************************************************************)
(* Properties of the re-engagement review loop (ReSpec / ReFairSpec)       *)
(***************************************************************************)
Executed(node) == Cardinality({i \in 1..Len(reLog) : reLog[i].node = node})
LastNode == IF reLog = <<>> THEN "none" ELSE reLog[Len(reLog)].node
ReFinished == rePc \in {"END", "raised"}

\* C6: every run of the review loop terminates, whatever the verdicts, after
\* at most 3 generate/review round-trips beyond the first one.
C6_ReviewLoopTerminates ==
    /\ [](Executed("copywriter") <= 1 + 3 /\ Executed("critic") <= 1 + 3)
    /\ <>ReFinished

\* a run that was rejected until the ceiling ended it
C6_Witness ==
    /\ rePc = "END"
    /\ ~reState.is_approved
    /\ Executed("critic") = 3
    /\ \A i \in 1..Len(reLog) : ~reLog[i].verdict

\* C7: after a review the run ends exactly when that review approved or
\* revision_count >= 3: a final state has is_approved or revision_count >= 3,
\* a loop-back to the copywriter has is_approved = false and revision_count < 3.
C7_EndIffApprovedOrCeiling ==
    /\ LastNode = "critic" => rePc \in {"END", "copywriter", "raised"}
    /\ rePc = "END" => (reState.is_approved \/ reState.revision_count >= 3)
    /\ (rePc = "copywriter" /\ LastNode = "critic")
          => (~reState.is_approved /\ reState.revision_count < 3)

\* the second rejection sends the run back to the copywriter
C7_Witness ==
    /\ rePc = "copywriter"
    /\ LastNode = "critic"
    /\ reState.revision_count = 2
    /\ ~reState.is_approved

\* C13: a reasoner failure in any of the four steps (analyze,
\* select-strategy, generate, review) never propagates out of the graph run.
C13_FailuresContained == rePc # "raised"

\* the reviews of this run that rejected the copy
Rejections ==
    Cardinality({i \in 1..Len(reLog) :
        reLog[i].node = "critic" /\ reLog[i].raw_verdict # "" /\ ~reLog[i].verdict})

\* C15: revision_count equals the number of reviews that rejected the copy:
\* it starts at 0, rises by 1 on each rejection and an approving review
\* leaves it unchanged.
C15_RevisionCountIsRejections == reState.revision_count = Rejections

\* the node the graph runs as its i-th step
NodeAt(i) ==
    IF i = 1 THEN "analyst"
    ELSE IF i = 2 THEN "strategist"
    ELSE IF i % 2 = 1 THEN "copywriter" ELSE "critic"

\* C16: the steps run in the order analyze, select-strategy, generate,
\* review, a rejection re-enters at generate only: analyze and
\* select-strategy run exactly once per run and every generate step is
\* immediately followed by exactly one review step.
C16_NodeOrder ==
    /\ \A i \in 1..Len(reLog) : reLog[i].node = NodeAt(i)
    /\ (rePc = "copywriter") => LastNode \in {"strategist", "critic"}
    /\ (rePc = "critic") => LastNode = "copywriter"
    /\ (rePc = "END") =>
          /\ Executed("analyst") = 1
          /\ Executed("strategist") = 1
          /\ Executed("copywriter") = Executed("critic")
          /\ LastNode = "critic"

\* a run whose first copy was rejected and whose second copy was approved
C16_Witness ==
    /\ rePc = "END"
    /\ Len(reLog) = 6
    /\ ~reLog[4].verdict
    /\ reLog[6].verdict


\* every review of this run so far rejected the copy
AllRejected == \A i \in 1..Len(reLog) : reLog[i].node = "critic" => ~reLog[i].verdict

\* C29: when every review rejects, a run executes the generate step exactly
\* 3 times and the review step exactly 3 times and ends with
\* revision_count = 3 and is_approved = false.
C29_AllRejectedRunsThreeRounds ==
    /\ AllRejected => (Executed("copywriter") <= 3 /\ Executed("critic") <= 3)
    /\ (AllRejected /\ rePc = "END") =>
          /\ Executed("copywriter") = 3
          /\ Executed("critic") = 3
          /\ reState.revision_count = 3
          /\ reState.is_approved = FALSE

\* the run of eight steps that ends on its third rejection
C29_Witness ==
    /\ rePc = "END"
    /\ Len(reLog) = 8
    /\ reState.revision_count = 3
    /\ reState.is_approved = FALSE
    /\ reState.critic_feedback = FeedbackRewrite

\* C30: CriticAgent.forward turns a reasoner verdict of is_approved = False
\* into an approval only when the feedback is positive: a rejecting feedback
\* that calls the message "inadequada" keeps is_approved false and the loop
\* goes back to the copywriter.
C30_RejectingFeedbackRejects ==
    (/\ LastNode = "critic"
     /\ reLog[Len(reLog)].raw_verdict = "false"
     /\ reState.critic_feedback = FeedbackInadequate)
    => /\ reState.is_approved = FALSE
       /\ reState.revision_count < MaxRevisions => rePc = "copywriter"


(***************************************************************************)
(* Properties of the router graph (RtSpec)                                 *)
(***************************************************************************)
\* the branch the conditional edge took after the router node
Dispatched == Len(rtLog) = 1 /\ rtPc # "raised"

\* C8: should_continue returns "medical_agent" for every intent_queue that
\* contains MEDICAL_ASSESSMENT, whatever else is in it and in whatever order.
C8_MedicalWins ==
    /\ (Dispatched /\ "MEDICAL_ASSESSMENT" \in Elems(rtState.intent_queue))
          => rtPc = "medical_agent"
    /\ (rtPc = "responded" /\ "MEDICAL_ASSESSMENT" \in Elems(rtState.intent_queue))
          => rtResp.routed_to = "medical_agent"

\* the queue of test_medical_priority
C8_Witness ==
    /\ Dispatched
    /\ rtState.intent_queue = <<"SALES", "MEDICAL_ASSESSMENT", "SCHEDULING">>
    /\ rtPc = "medical_agent"

\* the fixed precedence and the branch of each dispatched category
Precedence == <<"MEDICAL_ASSESSMENT", "SCHEDULING", "SALES", "TECH_FAQ">>
Branch == <<"medical_agent", "scheduler_agent", "closer_agent", "faq_agent">>

\* C9: should_continue returns the branch of the highest-priority category
\* present (MEDICAL_ASSESSMENT > SCHEDULING > SALES > TECH_FAQ) and "__end__"
\* when the queue is empty or holds none of the four.
C9_HighestPriorityBranch ==
    Dispatched =>
        LET present == Elems(rtState.intent_queue) IN
        /\ \A i \in 1..4 :
              rtPc = Branch[i] <=>
                  (Precedence[i] \in present /\ \A j \in 1..(i - 1) : Precedence[j] \notin present)
        /\ rtPc = "__end__" <=> (\A i \in 1..4 : Precedence[i] \notin present)

\* a sales category listed after a FAQ one and a category that is not dispatched
C9_Witness ==
    /\ Dispatched
    /\ rtState.intent_queue = <<"GENERAL_INFO", "TECH_FAQ", "SALES">>
    /\ rtPc = "closer_agent"

\* the agent nodes of the graph
AgentNodes == {"closer_agent", "scheduler_agent", "medical_agent", "faq_agent"}

\* C17: a run of the router graph executes the classifier node once and then
\* at most one agent node, and the intent_queue of the final state is exactly
\* the list the classifier returned: dispatching removes no category.
C17_OneBranchQueueKept ==
    /\ Cardinality({i \in 1..Len(rtLog) : rtLog[i] = "router"}) <= 1
    /\ Cardinality({i \in 1..Len(rtLog) : rtLog[i] \in AgentNodes}) <= 1
    /\ \A i \in 1..Len(rtLog) : rtLog[i] \in AgentNodes => (i = 2 /\ rtLog[1] = "router")
    /\ rtPc \in {"__end__", "responded"} =>
          /\ rtLog[1] = "router"
          /\ rtState.intent_queue = rtRaw.items
    /\ rtPc = "responded" => rtResp.intents = rtRaw.items

\* a run dispatched to the scheduler with two more categories in its queue
C17_Witness ==
    /\ rtPc = "__end__"
    /\ rtLog = <<"router", "scheduler_agent">>
    /\ rtState.intent_queue = <<"SALES", "SCHEDULING", "GENERAL_INFO">>

\* C18: for every raw urgency value of the reasoner (a number out of range,
\* numeric text, non-numeric text, nothing) the router endpoint answers with
\* an urgency_score between 1 and 5, 1 when nothing can be parsed, rather
\* than failing the request.
C18_UrgencyClamped ==
    (/\ rtPc \in {"responded", "http_500"}
     /\ rtRaw.is_list
     /\ rtRaw.reasoning.t = "str")
    => /\ rtPc = "responded"
       /\ rtResp.urgency_score \in 1..5
       /\ (rtRaw.urgency_score.t = "none" \/ rtRaw.urgency_score.text = "alta")
             => rtResp.urgency_score = 1

\* C28: the dispatcher is total in both variants (router.py and agent.py):
\* should_continue returns one of the four agent nodes or "__end__" for every
\* intent_queue, non-empty queues without MEDICAL_ASSESSMENT built from the
\* file's own IntentType values included, and never raises.
C28_DispatcherTotal ==
    (Len(rtLog) = 1 /\ rtRaw.is_list) => rtPc \in AgentNodes \cup {"__end__"}

\* C10: for every raw category output the category list of the router's
\* result is non-empty, holds only members of the closed IntentCategory
\* enumeration, and is exactly <<"UNCLASSIFIED">> when no raw element is valid.
C10_NormalizedCategories ==
    rtPc = "responded" =>
        /\ rtResp.intents # <<>>
        /\ Elems(rtResp.intents) \subseteq IntentCategory
        /\ (Elems(rtRaw.items) \cap IntentCategory = {}) => rtResp.intents = <<"UNCLASSIFIED">>

=============================================================================
